---- MODULE Spec2Model ----
(***************************************************************************)
(* A model of the Unscented Kalman Filter of src/src/ukf.cpp (class UKF):  *)
(* ProcessMeasurement, Prediction, UpdateLidar, UpdateRadar and            *)
(* printNIS, with the angle normalisation loops as a stepwise machine.     *)
(*                                                                         *)
(* Arithmetic.  A C++ double is modelled by a scalar record s with         *)
(*   s.k = "ex"  : the value is exactly (s.a + s.b*sqrt(3)) / s.d          *)
(*   s.k = "fin" : some finite value the model does not track              *)
(*   s.k = "nan" : NaN (an indeterminate value)                            *)
(*   s.k = "unk" : any double at all (untracked, or uninitialised memory)  *)
(* Every operation below returns "ex" or "nan" only when the double        *)
(* computation yields that value (up to rounding of the exact real         *)
(* result); whatever it cannot decide is "fin" or "unk".  sqrt(3) is in    *)
(* the domain because the sigma point spread is sqrt(lambda_ + n_aug_).    *)
(***************************************************************************)
EXTENDS Integers, Sequences, FiniteSets, TLC

\* ------------------------------------------------------------ integers
Abs(n) == IF n < 0 THEN -n ELSE n

RECURSIVE Gcd(_, _)
Gcd(m, n) == IF n = 0 THEN m ELSE Gcd(n, m % n)

\* the largest r among base, base + step, ..., base + 35 * step with
\* r * r <= n (r at most 46340, the root of the largest 32-bit square)
SqrtDigit(n, base, step) ==
    CHOOSE r \in {base + step * i : i \in 0 .. 35} :
        /\ r <= 46340
        /\ r * r <= n
        /\ \/ r + step > 46340
           \/ (r + step) * (r + step) > n

\* floor(sqrt(n)) for 0 <= n < 2^31, one base-36 digit at a time
ISqrt(n) == SqrtDigit(n, SqrtDigit(n, SqrtDigit(n, 0, 1296), 36), 1)

IsSquare(n) == n >= 0 /\ ISqrt(n) * ISqrt(n) = n

\* ------------------------------------------------------------- scalars
Fin == [k |-> "fin", a |-> 0, b |-> 0, d |-> 1]
NaN == [k |-> "nan", a |-> 0, b |-> 0, d |-> 1]
Unk == [k |-> "unk", a |-> 0, b |-> 0, d |-> 1]

\* (a + b*sqrt(3)) / d in lowest terms, d > 0
Ex(a, b, d) ==
    LET g   == Gcd(Gcd(Abs(a), Abs(b)), Abs(d))
        sgn == IF d < 0 THEN -1 ELSE 1
    IN [k |-> "ex", a |-> (sgn * a) \div g, b |-> (sgn * b) \div g, d |-> (sgn * d) \div g]

Q(n, d) == Ex(n, 0, d)
Z(n)    == Ex(n, 0, 1)
Zero    == Z(0)
One     == Z(1)

IsEx(s)  == s.k = "ex"
IsNaN(s) == s.k = "nan"
IsZero(s) == s.k = "ex" /\ s.a = 0 /\ s.b = 0

\* sign of a + b*sqrt(3) (a exact scalar's sign): -1, 0 or 1
SignAB(a, b) ==
    IF a = 0 /\ b = 0 THEN 0
    ELSE IF a >= 0 /\ b >= 0 THEN 1
    ELSE IF a <= 0 /\ b <= 0 THEN -1
    ELSE IF a > 0 THEN (IF a * a > 3 * b * b THEN 1 ELSE -1)
    ELSE (IF 3 * b * b > a * a THEN 1 ELSE -1)

Sign(s) == SignAB(s.a, s.b)

\* the kind of x (op) y for +, -: NaN absorbs, then "unk", then "fin"
Join(x, y) ==
    IF x.k = "nan" \/ y.k = "nan" THEN NaN
    ELSE IF x.k = "unk" \/ y.k = "unk" THEN Unk
    ELSE Fin

Neg(x) == IF IsEx(x) THEN Ex(-x.a, -x.b, x.d) ELSE x

Add(x, y) ==
    IF IsEx(x) /\ IsEx(y)
    THEN Ex(x.a * y.d + y.a * x.d, x.b * y.d + y.b * x.d, x.d * y.d)
    ELSE Join(x, y)

Sub(x, y) == Add(x, Neg(y))

\* 0 * finite = 0 in IEEE arithmetic; 0 * NaN and 0 * Inf are NaN
Mul(x, y) ==
    IF IsEx(x) /\ IsEx(y)
    THEN Ex(x.a * y.a + 3 * x.b * y.b, x.a * y.b + x.b * y.a, x.d * y.d)
    ELSE IF x.k = "nan" \/ y.k = "nan" THEN NaN
    ELSE IF x.k = "unk" \/ y.k = "unk" THEN Unk
    ELSE IF IsZero(x) \/ IsZero(y) THEN Zero
    ELSE Fin

\* 0/0 is NaN; nonzero/0 is an infinity ("unk": not tracked); a finite
\* untracked divisor may be zero
Div(x, y) ==
    IF x.k = "nan" \/ y.k = "nan" THEN NaN
    ELSE IF x.k = "unk" \/ y.k = "unk" THEN Unk
    ELSE IF IsZero(y) THEN (IF IsZero(x) THEN NaN ELSE Unk)
    ELSE IF ~IsEx(y) THEN Unk
    ELSE IF ~IsEx(x) THEN Fin
    ELSE LET nrm   == y.a * y.a - 3 * y.b * y.b
             recip == Ex(y.a * y.d, -(y.b * y.d), nrm)     \* 1/y
         IN Mul(x, recip)

\* x / y where the code has just tested fabs(y) > 0.001
DivNonzero(x, y) ==
    IF IsEx(y) \/ y.k = "nan" \/ x.k = "nan" \/ x.k = "unk" \/ y.k = "unk"
    THEN Div(x, y)
    ELSE Fin

\* sqrt: exact on q^2 and on 3*q^2 (q rational), NaN below zero
Sqrt(x) ==
    IF x.k = "nan" THEN NaN
    ELSE IF x.k = "unk" \/ x.k = "fin" THEN Unk
    ELSE IF Sign(x) < 0 THEN NaN
    ELSE IF x.b # 0 THEN Fin
    ELSE IF IsSquare(x.a) /\ IsSquare(x.d) THEN Q(ISqrt(x.a), ISqrt(x.d))
    ELSE LET third == Q(x.a, 3 * x.d)
         IN IF IsSquare(third.a) /\ IsSquare(third.d)
            THEN Ex(0, ISqrt(third.a), ISqrt(third.d))
            ELSE Fin

Cos(x) ==
    IF x.k = "nan" THEN NaN
    ELSE IF x.k = "unk" THEN Unk
    ELSE IF IsZero(x) THEN One
    ELSE Fin

Sin(x) ==
    IF x.k = "nan" THEN NaN
    ELSE IF x.k = "unk" THEN Unk
    ELSE IF IsZero(x) THEN Zero
    ELSE Fin

\* atan2(0, x) = 0 for x >= 0 (atan2(0, 0) = 0 in C)
Atan2(y, x) ==
    IF x.k = "nan" \/ y.k = "nan" THEN NaN
    ELSE IF x.k = "unk" \/ y.k = "unk" THEN Unk
    ELSE IF IsZero(y) /\ IsEx(x) /\ Sign(x) >= 0 THEN Zero
    ELSE Fin

Fabs(x) == IF IsEx(x) /\ Sign(x) < 0 THEN Neg(x) ELSE x

\* x > y: "T", "F", or "?" when the model cannot decide; a comparison with
\* NaN is false
Gt(x, y) ==
    IF x.k = "nan" \/ y.k = "nan" THEN "F"
    ELSE IF IsEx(x) /\ IsEx(y) THEN (IF Sign(Sub(x, y)) > 0 THEN "T" ELSE "F")
    ELSE "?"

\* ------------------------------------------------- vectors and matrices
\* A vector is a function on 0..n-1, a matrix M a function of the row then
\* the column: M[r][c] is the code's M(r, c).
Rng(n) == 0 .. (n - 1)

\* f as an explicit table: every entry is computed once, when the vector or
\* matrix is built, as the code computes it
Once(f) == f @@ << >>

\* the value of result once the values of steps (a tuple, in the order the
\* statements run) have been computed: an operand is computed once, where
\* the code computes it, and not again at each place that reads it
InOrder(steps, result) == IF steps = steps THEN result ELSE result

RECURSIVE SumRange(_, _, _)
\* f[lo] + ... + f[hi].  The code accumulates from 0.0 in index order; Add
\* on scalars is associative with Zero as identity, so the sum is the same
\* when the range is halved.
SumRange(f, lo, hi) ==
    IF lo > hi THEN Zero
    ELSE IF lo = hi THEN f[lo]
    ELSE Add(SumRange(f, lo, (lo + hi) \div 2), SumRange(f, (lo + hi) \div 2 + 1, hi))

\* f[0] + ... + f[i]
SumTo(f, i) == SumRange(f, 0, i)

Col(M, c) == Once([r \in DOMAIN M |-> M[r][c]])

VecAdd(ua, ub) == InOrder(<<ua, ub>>, Once([i \in DOMAIN ua |-> Add(ua[i], ub[i])]))
VecSub(ua, ub) == InOrder(<<ua, ub>>, Once([i \in DOMAIN ua |-> Sub(ua[i], ub[i])]))
VecScale(wt, ua) == Once([i \in DOMAIN ua |-> Mul(wt, ua[i])])

MatAdd(A, B) ==
    InOrder(<<A, B>>,
            Once([r \in DOMAIN A |-> Once([c \in DOMAIN A[r] |-> Add(A[r][c], B[r][c])])]))
MatSub(A, B) ==
    InOrder(<<A, B>>,
            Once([r \in DOMAIN A |-> Once([c \in DOMAIN A[r] |-> Sub(A[r][c], B[r][c])])]))

\* wt * ua * ub^T
ScaledOuter(wt, ua, ub) ==
    Once([r \in DOMAIN ua |-> Once([c \in DOMAIN ub |-> Mul(Mul(wt, ua[r]), ub[c])])])

ZeroMat(n, m) == Once([r \in Rng(n) |-> Once([c \in Rng(m) |-> Zero])])

Transpose(A, n, m) ==
    InOrder(<<A>>, Once([c \in Rng(m) |-> Once([r \in Rng(n) |-> A[r][c]])]))

\* (n x m) * (m x p)
MatMul(A, B, n, m, p) ==
    InOrder(<<A, B>>,
            Once([r \in Rng(n) |-> Once([c \in Rng(p) |->
                SumTo([k \in Rng(m) |-> Mul(A[r][k], B[k][c])], m - 1)])]))

MatVec(A, ua, n, m) ==
    InOrder(<<A, ua>>,
            Once([r \in Rng(n) |-> SumTo([k \in Rng(m) |-> Mul(A[r][k], ua[k])], m - 1)]))

Dot(ua, ub, n) == InOrder(<<ua, ub>>, SumTo([k \in Rng(n) |-> Mul(ua[k], ub[k])], n - 1))

\* T[0] + ... + T[i] of n x m matrices, accumulated from fill(0.0)
MatSumTo(T, i, n, m) ==
    InOrder(<<T>>,
            Once([r \in Rng(n) |-> Once([c \in Rng(m) |->
                SumTo([j \in Rng(i + 1) |-> T[j][r][c]], i)])]))

\* T[0] + ... + T[i] of n-vectors, accumulated from fill(0.0)
VecSumTo(T, i, n) ==
    InOrder(<<T>>, Once([k \in Rng(n) |-> SumTo([j \in Rng(i + 1) |-> T[j][k]], i)]))

Det2(M) == Sub(Mul(M[0][0], M[1][1]), Mul(M[0][1], M[1][0]))

\* the 2 x 2 minor of a 3 x 3 matrix without row r and column c
Minor3(M, r, c) ==
    LET rs == IF r = 0 THEN <<1, 2>> ELSE IF r = 1 THEN <<0, 2>> ELSE <<0, 1>>
        cs == IF c = 0 THEN <<1, 2>> ELSE IF c = 1 THEN <<0, 2>> ELSE <<0, 1>>
    IN Sub(Mul(M[rs[1]][cs[1]], M[rs[2]][cs[2]]), Mul(M[rs[1]][cs[2]], M[rs[2]][cs[1]]))

Cofactor3(M, r, c) == IF (r + c) % 2 = 0 THEN Minor3(M, r, c) ELSE Neg(Minor3(M, r, c))

Det3(M) ==
    Add(Add(Mul(M[0][0], Cofactor3(M, 0, 0)), Mul(M[0][1], Cofactor3(M, 0, 1))),
        Mul(M[0][2], Cofactor3(M, 0, 2)))

\* M.inverse() of a 2 x 2 or 3 x 3 matrix: adjugate over determinant
Inverse(M, n) ==
    LET det == IF n = 2 THEN Det2(M) ELSE Det3(M)
    IN InOrder(<<M, det>>,
               IF n = 2
               THEN Once([r \in Rng(2) |-> Once([c \in Rng(2) |->
                        IF r = c THEN Div(M[1 - r][1 - c], det) ELSE Div(Neg(M[r][c]), det)])])
               ELSE Once([r \in Rng(3) |-> Once([c \in Rng(3) |->
                        Div(Cofactor3(M, c, r), det)])]))

\* P_aug.llt().matrixL(): the lower Cholesky factor, column by column.  A
\* pivot that is not known to be positive leaves the rest untracked.
\* column j of the factor, given columns 0 to j-1 in Lacc
LltCol(A, Lacc, j, n) ==
    LET pivot == Sub(A[j][j], SumTo([k \in Rng(j) |-> Mul(Lacc[j][k], Lacc[j][k])], j - 1))
        ok   == IsEx(pivot) /\ Sign(pivot) > 0
        piv  == IF ok THEN Sqrt(pivot) ELSE IF IsNaN(pivot) THEN NaN ELSE Unk
        below(i) == Sub(A[i][j], SumTo([k \in Rng(j) |-> Mul(Lacc[i][k], Lacc[j][k])], j - 1))
    IN InOrder(<<A, Lacc, piv>>,
               Once([r \in Rng(n) |-> Once([c \in Rng(n) |->
                   IF c # j THEN Lacc[r][c]
                   ELSE IF r < j THEN Zero
                   ELSE IF r = j THEN piv
                   ELSE IF ok THEN DivNonzero(below(r), piv) ELSE Div(below(r), piv)])]))

RECURSIVE LltCols(_, _, _, _)
\* columns j to n-1 in turn
LltCols(A, Lacc, j, n) ==
    IF j >= n THEN Lacc ELSE InOrder(<<Lacc>>, LltCols(A, LltCol(A, Lacc, j, n), j + 1, n))

Llt(A, n) == LltCols(A, ZeroMat(n, n), 0, n)

\* ------------------------------------------------------ UKF parameters
\* x_ = VectorXd(5); n_x_ = x_.size()
n_x == 5
n_aug == n_x + 2
n_sig == 2 * n_aug + 1
lambda == 3 - n_aug

std_a      == Q(28, 10)
std_yawdd  == Q(11, 10)
std_laspx  == Q(15, 100)
std_laspy  == Q(15, 100)
std_radr   == Q(3, 10)
std_radphi == Q(3, 100)
std_radrd  == Q(3, 10)

Sq(s) == Mul(s, s)

\* diag(v) as an n x n matrix
Diag(ua, n) ==
    InOrder(<<ua>>, Once([r \in Rng(n) |-> Once([c \in Rng(n) |-> IF r = c THEN ua[r] ELSE Zero])]))

\* a tuple <<e0, e1, ...>> as a vector on 0..n-1
Vec(tup) == Once([i \in Rng(Len(tup)) |-> tup[i + 1]])

UnkVec(n) == Once([i \in Rng(n) |-> Unk])
UnkMat(n, m) == Once([r \in Rng(n) |-> Once([c \in Rng(m) |-> Unk])])

\* ---------------------------------------------------- angle residuals
\* Rational bounds of M_PI used to decide the loops' tests on an exact
\* residual: PiBelow < M_PI.
PiBelow == Q(3141, 1000)

\* while (r > M_PI) r -= 2.*M_PI;  while (r < -M_PI) r += 2.*M_PI;
\* on a scalar: an exact residual within [-PiBelow, PiBelow] passes both
\* tests unchanged, NaN fails both tests, any other finite residual ends
\* as some finite value.
NormalizeScalar(r) ==
    IF r.k = "nan" \/ r.k = "unk" \/ r.k = "fin" THEN r
    ELSE IF Sign(Sub(r, PiBelow)) <= 0 /\ Sign(Add(r, PiBelow)) >= 0 THEN r
    ELSE Fin

\* the residual vector d with component i normalised
NormalizeAt(d, i) == Once([k \in DOMAIN d |-> IF k = i THEN NormalizeScalar(d[k]) ELSE d[k]])

\* ---------------------------------------------------------- Prediction
\* x_aug: x_ followed by two zeros
AugmentedMean(x) ==
    InOrder(<<x>>, Once([i \in Rng(n_aug) |-> IF i < n_x THEN x[i] ELSE Zero]))

\* P_aug: P_ in the top left corner, diag(std_a^2, std_yawdd^2) bottom right
AugmentedCovariance(P) ==
    InOrder(<<P>>,
            Once([r \in Rng(n_aug) |-> Once([c \in Rng(n_aug) |->
                IF r < n_x /\ c < n_x THEN P[r][c]
                ELSE IF r = c /\ r = n_x THEN Mul(std_a, std_a)
                ELSE IF r = c /\ r = n_x + 1 THEN Mul(std_yawdd, std_yawdd)
                ELSE Zero])]))

\* column i of Xsig_aug
AugmentedSigmaPoint(xa, La, i) ==
    LET spread == Sqrt(Z(lambda + n_aug))
    IN IF i = 0 THEN xa
       ELSE IF i <= n_aug THEN VecAdd(xa, VecScale(spread, Col(La, i - 1)))
       ELSE VecSub(xa, VecScale(spread, Col(La, i - 1 - n_aug)))

\* the value of a variable assigned in both branches of a test the model
\* cannot decide
Either(u, v) ==
    IF u = v THEN u
    ELSE IF u.k \in {"nan", "unk"} \/ v.k \in {"nan", "unk"} THEN Unk
    ELSE Fin

\* one column of Xsig_pred_: the CTRV motion of an augmented sigma point
PredictSigmaPoint(p, delta_t) ==
    LET p_x      == p[0]
        p_y      == p[1]
        v        == p[2]
        yaw      == p[3]
        yawd     == p[4]
        nu_a     == p[5]
        nu_yawdd == p[6]
        turning  == Gt(Fabs(yawd), Q(1, 1000))
        yaw_end  == Add(yaw, Mul(yawd, delta_t))
        px_turn  == Add(p_x, Mul(DivNonzero(v, yawd), Sub(Sin(yaw_end), Sin(yaw))))
        py_turn  == Add(p_y, Mul(DivNonzero(v, yawd), Sub(Cos(yaw), Cos(yaw_end))))
        px_line  == Add(p_x, Mul(Mul(v, delta_t), Cos(yaw)))
        py_line  == Add(p_y, Mul(Mul(v, delta_t), Sin(yaw)))
        px_p     == IF turning = "T" THEN px_turn
                    ELSE IF turning = "F" THEN px_line ELSE Either(px_turn, px_line)
        py_p     == IF turning = "T" THEN py_turn
                    ELSE IF turning = "F" THEN py_line ELSE Either(py_turn, py_line)
        half     == Q(1, 2)
    IN InOrder(<<p, px_p, py_p>>,
          Vec(<< Add(px_p, Mul(Mul(Mul(Mul(half, nu_a), delta_t), delta_t), Cos(yaw))),
                 Add(py_p, Mul(Mul(Mul(Mul(half, nu_a), delta_t), delta_t), Sin(yaw))),
                 Add(v, Mul(nu_a, delta_t)),
                 Add(Add(yaw, Mul(yawd, delta_t)),
                     Mul(Mul(Mul(half, nu_yawdd), delta_t), delta_t)),
                 Add(yawd, Mul(nu_yawdd, delta_t)) >>))

\* for comparison: the weights of the common convention lambda = 3 - n_x
WeightsOfLambdaNx ==
    Once([i \in Rng(n_sig) |->
        IF i = 0 THEN Div(Z(3 - n_x), Z(3 - n_x + n_aug))
        ELSE Div(Q(1, 2), Z(n_aug + 3 - n_x))])

\* the weights as Prediction writes them into weights_
SetWeights ==
    Once([i \in Rng(n_sig) |->
        IF i = 0 THEN Div(Z(lambda), Z(lambda + n_aug))
        ELSE IF i < 2 * n_aug + 1 THEN Div(Q(1, 2), Z(n_aug + lambda))
        ELSE Unk])

\* Xsig_pred_ from the augmented mean x_aug and the factor L of P_aug:
\* the sigma points are generated, then moved by the CTRV model
PredictSigmaPoints(x_aug, L, delta_t) ==
    InOrder(<<x_aug, L>>,
            Once([i \in Rng(n_sig) |->
                PredictSigmaPoint(AugmentedSigmaPoint(x_aug, L, i), delta_t)]))

\* the predicted state mean: x_ = sum of weights_(i) * Xsig_pred_.col(i)
PredictedMean(Xsig, wts) ==
    VecSumTo(Once([i \in Rng(n_sig) |-> VecScale(wts[i], Xsig[i])]), n_sig - 1, n_x)

\* the predicted state covariance: P_ = sum of weights_(i) * x_diff * x_diff^T
\* with the yaw residual x_diff(3) normalised
PredictedCovariance(Xsig, wts, x_new) ==
    MatSumTo(Once([i \in Rng(n_sig) |->
                LET x_diff == NormalizeAt(VecSub(Xsig[i], x_new), 3)
                IN ScaledOuter(wts[i], x_diff, x_diff)]), n_sig - 1, n_x, n_x)

\* the belief Prediction leaves, from the predicted sigma points and weights
PredictedBelief(Xsig, wts) ==
    LET x_new == PredictedMean(Xsig, wts)
    IN InOrder(<<Xsig, wts, x_new>>,
               [x |-> x_new, P |-> PredictedCovariance(Xsig, wts, x_new),
                Xsig_pred |-> Xsig, weights |-> wts])

\* Prediction(delta_t) on the belief (x, P): the new x_, P_, Xsig_pred_
\* (held by column: Xsig_pred[i] is the code's Xsig_pred_.col(i)) and
\* weights_
Prediction(x, P, delta_t) ==
    PredictedBelief(
        PredictSigmaPoints(AugmentedMean(x), Llt(AugmentedCovariance(P), n_aug), delta_t),
        SetWeights)

\* --------------------------------------------- the measurement updates
\* The common tail of UpdateLidar and UpdateRadar, from the Kalman gain on:
\* K = Tc * S.inverse(); NIS = z_diff^T * S.inverse() * z_diff;
\* x_ += K * z_diff; P_ -= K * S * K^T
ApplyGain(x, P, Tcc, Smat, resid, nz) ==
    LET Sinv == Inverse(Smat, nz)
        K    == MatMul(Tcc, Sinv, n_x, nz, nz)
        nis  == Dot(MatVec(Transpose(Sinv, nz, nz), resid, nz, nz), resid, nz)
        KS   == MatMul(K, Smat, n_x, nz, nz)
    IN InOrder(<<x, P, Tcc, Smat, resid, Sinv, K, nis, KS>>,
               [x   |-> VecAdd(x, MatVec(K, resid, n_x, nz)),
                P   |-> MatSub(P, MatMul(KS, Transpose(K, n_x, nz), n_x, nz, n_x)),
                nis |-> nis])

\* UpdateLidar(meas_package) on the belief (x, P), the predicted sigma
\* points and the weights as they stand; raw = raw_measurements_
UpdateLidar(x, P, Xsig_pred, weights, raw) ==
    LET n_z    == 2
        Zsig   == Once([i \in Rng(n_sig) |-> Vec(<< Xsig_pred[i][0], Xsig_pred[i][1] >>)])
        z_pred == VecSumTo(Once([i \in Rng(n_sig) |-> VecScale(weights[i], Zsig[i])]),
                           n_sig - 1, n_z)
        S0     == MatSumTo(Once([i \in Rng(n_sig) |->
                            LET z_diff == VecSub(Zsig[i], z_pred)
                            IN ScaledOuter(weights[i], z_diff, z_diff)]), n_sig - 1, n_z, n_z)
        R      == Diag(Vec(<< Mul(std_laspx, std_laspx), Mul(std_laspy, std_laspy) >>), n_z)
        S      == MatAdd(S0, R)
        z      == Vec(<< raw[0], raw[1] >>)
        Tc     == MatSumTo(Once([i \in Rng(2 * n_aug + 1) |->
                            LET x_diff == NormalizeAt(VecSub(Xsig_pred[i], x), 3)
                                z_diff == VecSub(Zsig[i], z_pred)
                            IN ScaledOuter(weights[i], x_diff, z_diff)]), n_sig - 1, n_x, n_z)
    IN InOrder(<<Zsig, z_pred, S, Tc>>, ApplyGain(x, P, Tc, S, VecSub(z, z_pred), n_z))

\* the radar measurement model of one predicted sigma point: r, phi, r_dot
RadarModel(p) ==
    LET p_x == p[0]
        p_y == p[1]
        v   == p[2]
        yaw == p[3]
        v_x == Mul(Cos(yaw), v)
        v_y == Mul(Sin(yaw), v)
        r   == Sqrt(Add(Mul(p_x, p_x), Mul(p_y, p_y)))
    IN InOrder(<<p, r>>, Vec(<< r, Atan2(p_y, p_x), Div(Add(Mul(p_x, v_x), Mul(p_y, v_y)), r) >>))

\* UpdateRadar(meas_package)
UpdateRadar(x, P, Xsig_pred, weights, raw) ==
    LET n_z    == 3
        Zsig   == Once([i \in Rng(n_sig) |-> RadarModel(Xsig_pred[i])])
        z_pred == VecSumTo(Once([i \in Rng(n_sig) |-> VecScale(weights[i], Zsig[i])]),
                           n_sig - 1, n_z)
        S0     == MatSumTo(Once([i \in Rng(n_sig) |->
                            LET z_diff == NormalizeAt(VecSub(Zsig[i], z_pred), 1)
                            IN ScaledOuter(weights[i], z_diff, z_diff)]), n_sig - 1, n_z, n_z)
        R      == Diag(Vec(<< Mul(std_radr, std_radr), Mul(std_radphi, std_radphi),
                              Mul(std_radrd, std_radrd) >>), n_z)
        S      == MatAdd(S0, R)
        z      == Vec(<< raw[0], raw[1], raw[2] >>)
        Tc     == MatSumTo(Once([i \in Rng(n_sig) |->
                            LET z_diff == NormalizeAt(VecSub(Zsig[i], z_pred), 1)
                                x_diff == NormalizeAt(VecSub(Xsig_pred[i], x), 3)
                            IN ScaledOuter(weights[i], x_diff, z_diff)]), n_sig - 1, n_x, n_z)
    IN InOrder(<<Zsig, z_pred, S, Tc>>,
               ApplyGain(x, P, Tc, S, NormalizeAt(VecSub(z, z_pred), 1), n_z))

\* ------------------------------------------------------- the estimator
VARIABLES
    is_initialized_,  \* BOOLEAN
    use_laser_,       \* BOOLEAN
    use_radar_,       \* BOOLEAN
    x_,               \* the state vector (5 scalars)
    P_,               \* the state covariance (5 x 5)
    time_us_,         \* timestamp of the last measurement, microseconds
    weights_,         \* the sigma point weights (15 scalars)
    Xsig_pred_,       \* the predicted sigma points, by column (15 x 5)
    nis_laser_,       \* sequence of scalars
    nis_radar_,       \* sequence of scalars
    last,             \* what the latest ProcessMeasurement call did
    n_laser,          \* LASER measurements passed to ProcessMeasurement
    n_radar,          \* RADAR measurements passed to ProcessMeasurement
    n_calls,          \* calls of ProcessMeasurement so far
    rows,             \* the rows written by the latest printNIS
    halted,           \* the process was ended by a read outside a vector
    ang               \* the angle normalisation loops on one residual

vars == << is_initialized_, use_laser_, use_radar_, x_, P_, time_us_, weights_,
           Xsig_pred_, nis_laser_, nis_radar_, last, n_laser, n_radar, n_calls, rows,
           halted, ang >>

ukf == << is_initialized_, use_laser_, use_radar_, x_, P_, time_us_, weights_,
          Xsig_pred_, nis_laser_, nis_radar_, last, n_laser, n_radar, n_calls, rows,
          halted >>

\* Bounds of the model: calls of ProcessMeasurement in a run, and the
\* timestamps offered, 0 to MaxTicks half seconds
MaxCalls == 2
MaxTicks == 1
TickUs   == 1000000 \div 2

Timestamps == {k * TickUs : k \in 0 .. MaxTicks}

SensorTypes == {"LASER", "RADAR", "OTHER"}

\* raw_measurements_ offered to the estimator, by sensor type
RawValues(sensor) ==
    IF sensor = "LASER" THEN {Vec(<<Zero, Zero>>), Vec(<<Z(1), Z(2)>>)}
    ELSE IF sensor = "RADAR" THEN {Vec(<<Zero, Zero, Zero>>), Vec(<<Z(5), Zero, Zero>>)}
    ELSE {Vec(<<Zero, Zero>>)}

NoCall ==
    [sensor |-> "none", timestamp |-> 0, raw |-> Vec(<<Zero>>), first |-> FALSE,
     prev_time |-> 0, ops |-> << >>, delta_t |-> Zero, error |-> "none",
     x_pred |-> UnkVec(n_x), P_pred |-> UnkMat(n_x, n_x), range_zero |-> FALSE]

\* UKF::UKF(): x_, P_, weights_, Xsig_pred_ and time_us_ are allocated or
\* declared but not written
Init ==
    /\ is_initialized_ = FALSE
    /\ use_laser_ = TRUE
    /\ use_radar_ = TRUE
    /\ x_ = UnkVec(n_x)
    /\ P_ = UnkMat(n_x, n_x)
    /\ time_us_ \in Timestamps
    /\ weights_ = UnkVec(n_sig)
    /\ Xsig_pred_ = UnkMat(n_sig, n_x)
    /\ nis_laser_ = << >>
    /\ nis_radar_ = << >>
    /\ last = NoCall
    /\ n_laser = 0
    /\ n_radar = 0
    /\ n_calls = 0
    /\ rows = << >>
    /\ halted = FALSE
    /\ ang = [pc |-> "idle", r0 |-> [big |-> FALSE, v |-> 0], r |-> [big |-> FALSE, v |-> 0]]

\* the (x, P) the first call writes, lines 89-118
FirstMeasurement(sensor, raw, x, P) ==
    IF sensor = "RADAR"
    THEN LET rho    == raw[0]
             phi    == raw[1]
             rhodot == raw[2]
             vx     == Mul(rhodot, Cos(phi))
             vy     == Mul(rhodot, Sin(phi))
         IN [x |-> Vec(<< Mul(rho, Cos(phi)), Mul(rho, Sin(phi)),
                          Sqrt(Add(Mul(vx, vx), Mul(vy, vy))), Zero, Zero >>),
             P |-> Diag(Vec(<< Mul(std_radr, std_radr), Mul(std_radr, std_radr), One,
                               Mul(std_radphi, std_radphi), Mul(std_radphi, std_radphi) >>), n_x)]
    ELSE IF sensor = "LASER"
    THEN [x |-> Vec(<< raw[0], raw[1], Zero, Zero, Zero >>),
          P |-> Diag(Vec(<< Mul(std_laspx, std_laspx), Mul(std_laspy, std_laspy),
                            One, One, One >>), n_x)]
    ELSE [x |-> x, P |-> P]

\* for comparison: the elapsed time with the operands exchanged
DeltaTBackwards(timestamp, time_us) == Q(time_us - timestamp, 1000000)

\* dt = (meas_package.timestamp_ - time_us_) / 1000000.0
DeltaT(timestamp, time_us) == Q(timestamp - time_us, 1000000)

\* the update lines 133-140 select
UpdateFor(sensor) ==
    IF sensor = "RADAR" THEN "UpdateRadar"
    ELSE IF sensor = "LASER" THEN "UpdateLidar"
    ELSE "none"

\* the update lines 133-140 run on the predicted belief pr
RunUpdate(sensor, raw, pr) ==
    IF UpdateFor(sensor) = "UpdateRadar"
    THEN UpdateRadar(pr.x, pr.P, pr.Xsig_pred, pr.weights, raw)
    ELSE IF UpdateFor(sensor) = "UpdateLidar"
    THEN UpdateLidar(pr.x, pr.P, pr.Xsig_pred, pr.weights, raw)
    ELSE [x |-> pr.x, P |-> pr.P, nis |-> Zero]

\* for comparison: a history that every update appends to
PushAlways(nis, op, value) == IF op # "none" THEN Append(nis, value) ELSE nis

\* nis_laser_ after the call: UpdateLidar's push_back, line 316
PushLaser(nis, op, value) == IF op = "UpdateLidar" THEN Append(nis, value) ELSE nis

\* nis_radar_ after the call: UpdateRadar's push_back, line 413
PushRadar(nis, op, value) == IF op = "UpdateRadar" THEN Append(nis, value) ELSE nis

\* some predicted sigma point has p_x = 0 and p_y = 0
RangeZero(Xsig_pred) == \E i \in Rng(n_sig) : IsZero(Xsig_pred[i][0]) /\ IsZero(Xsig_pred[i][1])

\* UKF::ProcessMeasurement(meas_package), for any timestamp the caller
\* passes
ProcessMeasurement(sensor, timestamp, raw) ==
    /\ ~halted
    /\ n_calls < MaxCalls
    /\ \E first \in {~is_initialized_} :
       \E bel \in {IF first THEN FirstMeasurement(sensor, raw, x_, P_) ELSE [x |-> x_, P |-> P_]} :
       \E t0 \in {IF first THEN timestamp ELSE time_us_} :
       \E pr \in {Prediction(bel.x, bel.P, DeltaT(timestamp, t0))} :
       \E op \in {UpdateFor(sensor)} :
       \E up \in {RunUpdate(sensor, raw, pr)} :
          /\ x_' = up.x
          /\ P_' = up.P
          /\ weights_' = pr.weights
          /\ Xsig_pred_' = pr.Xsig_pred
          /\ nis_laser_' = PushLaser(nis_laser_, op, up.nis)
          /\ nis_radar_' = PushRadar(nis_radar_, op, up.nis)
          /\ last' = [sensor |-> sensor, timestamp |-> timestamp, raw |-> raw,
                      first |-> first, prev_time |-> t0,
                      ops |-> IF op = "none" THEN <<"Prediction">> ELSE <<"Prediction", op>>,
                      delta_t |-> DeltaT(timestamp, t0), error |-> "none",
                      x_pred |-> pr.x, P_pred |-> pr.P,
                      range_zero |-> RangeZero(pr.Xsig_pred)]
    /\ is_initialized_' = TRUE
    /\ time_us_' = timestamp
    /\ n_laser' = IF sensor = "LASER" THEN n_laser + 1 ELSE n_laser
    /\ n_radar' = IF sensor = "RADAR" THEN n_radar + 1 ELSE n_radar
    /\ n_calls' = n_calls + 1
    /\ rows' = << >>
    /\ UNCHANGED << use_laser_, use_radar_, halted, ang >>

\* The caller sets the public toggles before the first measurement.
SetToggles(laser, radar) ==
    /\ ~halted
    /\ n_calls = 0
    /\ use_laser_ = TRUE /\ use_radar_ = TRUE
    /\ ~(laser /\ radar)
    /\ use_laser_' = laser
    /\ use_radar_' = radar
    /\ UNCHANGED << is_initialized_, x_, P_, time_us_, weights_, Xsig_pred_, nis_laser_,
                    nis_radar_, last, n_laser, n_radar, n_calls, rows, halted, ang >>

\* one row of printNIS, line 425: i, nis_radar_[i], nis_laser_[i]; a read
\* past the end of nis_laser_ yields an indeterminate value
NisRow(i) ==
    [num |-> i, radar |-> nis_radar_[i + 1],
     lidar |-> IF i < Len(nis_laser_) THEN nis_laser_[i + 1] ELSE Unk]

\* UKF::printNIS(): a read past the end of nis_laser_ either yields whatever
\* the memory holds or ends the process there
printNIS(aborts) ==
    /\ ~halted
    /\ n_calls > 0
    /\ LET n     == Len(nis_radar_)
           stop  == IF aborts /\ n > Len(nis_laser_) THEN Len(nis_laser_) + 1 ELSE n
       IN /\ aborts => n > Len(nis_laser_)
          /\ rows' = [i \in 1 .. stop |-> NisRow(i - 1)]
          /\ halted' = aborts
    /\ UNCHANGED << is_initialized_, use_laser_, use_radar_, x_, P_, time_us_, weights_,
                    Xsig_pred_, nis_laser_, nis_radar_, last, n_laser, n_radar, n_calls, ang >>

Next ==
    \/ \E sensor \in SensorTypes : \E timestamp \in Timestamps : \E raw \in RawValues(sensor) :
          ProcessMeasurement(sensor, timestamp, raw)
    \/ \E laser \in BOOLEAN : \E radar \in BOOLEAN : SetToggles(laser, radar)
    \/ \E aborts \in BOOLEAN : printNIS(aborts)

Spec == Init /\ [][Next]_vars

\* ------------------------------------------- the angle normalisation loops
\* while (r > M_PI) r -= 2.*M_PI;  while (r < -M_PI) r += 2.*M_PI;
\* stepwise, on one residual.  A residual is [big |-> FALSE, v |-> n]: exactly
\* n thousandths of a radian, or [big |-> TRUE, v |-> s]: a finite double of
\* sign s whose magnitude is so large (2^57 and above) that its neighbouring
\* doubles are more than 2*M_PI away.
M_PI == 3142

Angle(n) == [big |-> FALSE, v |-> n]
BigAngle(sgn) == [big |-> TRUE, v |-> sgn]

\* r > M_PI
AboveRange(r) == IF r.big THEN r.v > 0 ELSE r.v > M_PI

\* r < -M_PI
BelowRange(r) == IF r.big THEN r.v < 0 ELSE r.v < -M_PI

\* r -= 2.*M_PI: the difference rounds back to r when r is that large
SubTwoPi(r) == IF r.big THEN r ELSE Angle(r.v - 2 * M_PI)

\* r += 2.*M_PI
AddTwoPi(r) == IF r.big THEN r ELSE Angle(r.v + 2 * M_PI)

\* Bounds of the residuals offered: multiples of a quarter turn up to
\* MaxAng of them either way, 4.0 rad, and the two large residuals
MaxAng == 12
AngStep == M_PI \div 2

Residuals ==
    {Angle(k * AngStep) : k \in (-MaxAng) .. MaxAng}
        \cup {Angle(4000), BigAngle(1), BigAngle(-1)}

\* a residual is computed and reaches the first loop
NormStart(r) ==
    /\ ang.pc = "idle"
    /\ ang' = [pc |-> "sub", r0 |-> r, r |-> r]
    /\ UNCHANGED ukf

\* one iteration of the first loop
NormSubStep ==
    /\ ang.pc = "sub"
    /\ AboveRange(ang.r)
    /\ ang' = [ang EXCEPT !.r = SubTwoPi(ang.r)]
    /\ UNCHANGED ukf

\* the first loop's test fails
NormSubExit ==
    /\ ang.pc = "sub"
    /\ ~AboveRange(ang.r)
    /\ ang' = [ang EXCEPT !.pc = "add"]
    /\ UNCHANGED ukf

\* one iteration of the second loop
NormAddStep ==
    /\ ang.pc = "add"
    /\ BelowRange(ang.r)
    /\ ang' = [ang EXCEPT !.r = AddTwoPi(ang.r)]
    /\ UNCHANGED ukf

\* the second loop's test fails: the residual is used
NormAddExit ==
    /\ ang.pc = "add"
    /\ ~BelowRange(ang.r)
    /\ ang' = [ang EXCEPT !.pc = "done"]
    /\ UNCHANGED ukf

NormNext ==
    \/ \E r \in Residuals : NormStart(r)
    \/ NormSubStep
    \/ NormSubExit
    \/ NormAddStep
    \/ NormAddExit

\* the loops run on: a started statement takes its next step
SpecNorm == Init /\ [][NormNext]_vars /\ WF_vars(NormNext)

\* ------------------------------------------------------------ the claims
\* C1, as claimed: the first call with a LASER or RADAR measurement only
\* initialises x and P, records the timestamp and sets is_initialized_;
\* neither Prediction nor an update runs, and both NIS histories are empty
\* when it returns.
C1_FirstCallOnlyInitializes ==
    (last.first /\ last.sensor \in {"LASER", "RADAR"}) =>
        /\ is_initialized_
        /\ time_us_ = last.timestamp
        /\ last.ops = << >>
        /\ nis_laser_ = << >>
        /\ nis_radar_ = << >>

\* C1: a first LASER call has returned after running Prediction and
\* UpdateLidar, with one entry in nis_laser_.
C1_FirstCallRanUpdate ==
    /\ last.first
    /\ last.sensor = "LASER"
    /\ last.ops = <<"Prediction", "UpdateLidar">>
    /\ Len(nis_laser_) = 1

\* C2, as claimed: a first measurement of another sensor type signals an
\* InitializationError, leaves is_initialized_ false and runs no Prediction
\* or update.
C2_UnknownSensorRejected ==
    (last.first /\ last.sensor = "OTHER") =>
        /\ last.error = "InitializationError"
        /\ ~is_initialized_
        /\ last.ops = << >>

\* C2: a first measurement of another sensor type has been accepted: the
\* estimator is initialised, no error was signalled and Prediction ran.
C2_UnknownSensorAccepted ==
    /\ last.first
    /\ last.sensor = "OTHER"
    /\ is_initialized_
    /\ last.error = "none"
    /\ last.ops = <<"Prediction">>

\* C3: a call made on an initialised estimator runs Prediction once, first,
\* with dt = (timestamp - previous time_us_) / 1e6, which is not negative
\* when the timestamps do not decrease; time_us_ is the call's timestamp;
\* then exactly one update runs, UpdateRadar for RADAR and UpdateLidar for
\* LASER.
C3_PredictThenOneUpdate ==
    (last.sensor # "none" /\ ~last.first) =>
        /\ Len(last.ops) >= 1
        /\ last.ops[1] = "Prediction"
        /\ Mul(last.delta_t, Z(1000000)) = Z(last.timestamp - last.prev_time)
        /\ (last.timestamp >= last.prev_time => Sign(last.delta_t) >= 0)
        /\ time_us_ = last.timestamp
        /\ (last.sensor = "RADAR" => last.ops = <<"Prediction", "UpdateRadar">>)
        /\ (last.sensor = "LASER" => last.ops = <<"Prediction", "UpdateLidar">>)

\* C3: a RADAR call on an initialised estimator, later than the call before
C3_LaterRadarCall ==
    /\ ~last.first
    /\ last.sensor = "RADAR"
    /\ last.timestamp > last.prev_time
    /\ last.ops = <<"Prediction", "UpdateRadar">>
    /\ Sign(last.delta_t) > 0

\* C4: nis_laser_ is as long as the number of LASER measurements processed
\* and nis_radar_ as long as the number of RADAR measurements processed, and
\* each history only grows by appending.
C4_NisLengthsMatchCounts ==
    /\ [](Len(nis_laser_) = n_laser /\ Len(nis_radar_) = n_radar)
    /\ [][/\ Len(nis_laser_') >= Len(nis_laser_)
          /\ SubSeq(nis_laser_', 1, Len(nis_laser_)) = nis_laser_
          /\ Len(nis_radar_') >= Len(nis_radar_)
          /\ SubSeq(nis_radar_', 1, Len(nis_radar_)) = nis_radar_]_vars

\* C4: one LASER and one RADAR measurement processed, one entry in each
\* history
C4_OneOfEach ==
    /\ n_laser = 1
    /\ n_radar = 1
    /\ Len(nis_laser_) = 1
    /\ Len(nis_radar_) = 1

\* C5, as claimed: after a first LASER measurement (px, py) the state is
\* [px, py, 0, 0, 0] and the covariance diag(std_laspx^2, std_laspy^2, 1, 1, 1).
C5_FirstLaserBelief ==
    (last.first /\ last.sensor = "LASER") =>
        /\ x_ = Vec(<< last.raw[0], last.raw[1], Zero, Zero, Zero >>)
        /\ P_ = Diag(Vec(<< Sq(std_laspx), Sq(std_laspy), One, One, One >>), n_x)

\* C5: the first LASER measurement (1, 2) has been processed and the position
\* variance is 9/800, half of std_laspx^2 = 9/400.
C5_FirstLaserVarianceHalved ==
    /\ last.first
    /\ last.sensor = "LASER"
    /\ last.raw = Vec(<< Z(1), Z(2) >>)
    /\ x_ = Vec(<< Z(1), Z(2), Zero, Zero, Zero >>)
    /\ P_[0][0] = Q(9, 800)
    /\ P_[1][1] = Q(9, 800)

\* C6, as claimed: with use_laser_ false a LASER measurement after
\* initialisation is ignored (UpdateLidar is not applied: x and P keep the
\* predicted values), and with use_radar_ false a RADAR measurement after
\* initialisation is ignored likewise.
C6_TogglesGateUpdates ==
    /\ (~use_laser_ /\ ~last.first /\ last.sensor = "LASER") =>
            /\ last.ops = <<"Prediction">>
            /\ x_ = last.x_pred
            /\ P_ = last.P_pred
    /\ (~use_radar_ /\ ~last.first /\ last.sensor = "RADAR") =>
            /\ last.ops = <<"Prediction">>
            /\ x_ = last.x_pred
            /\ P_ = last.P_pred

\* C6: with use_laser_ false, a LASER measurement after initialisation has
\* gone through UpdateLidar and left an entry in nis_laser_.
C6_DisabledLaserConsumed ==
    /\ ~use_laser_
    /\ ~last.first
    /\ last.sensor = "LASER"
    /\ last.ops = <<"Prediction", "UpdateLidar">>
    /\ Len(nis_laser_) = 1

\* some entry of the vector, the matrix or the history is NaN
VecHasNaN(ua, n) == \E i \in Rng(n) : IsNaN(ua[i])
MatHasNaN(A, n, m) == \E r \in Rng(n) : \E c \in Rng(m) : IsNaN(A[r][c])
SeqHasNaN(sq) == \E i \in 1 .. Len(sq) : IsNaN(sq[i])

\* C7, as claimed: when UpdateRadar runs and a predicted sigma point has
\* px = 0 and py = 0, the update is skipped with an explicit error, x and P
\* keep their predicted values and no NaN is written to x, P or nis_radar_.
C7_DegenerateRadarRejected ==
    (last.sensor = "RADAR" /\ last.range_zero) =>
        /\ last.error = "DegenerateRadarGeometry"
        /\ x_ = last.x_pred
        /\ P_ = last.P_pred
        /\ ~VecHasNaN(x_, n_x)
        /\ ~MatHasNaN(P_, n_x, n_x)
        /\ ~SeqHasNaN(nis_radar_)

\* C7: a RADAR measurement met a predicted sigma point at range 0, no error
\* was signalled, and x, P and the new nis_radar_ entry are NaN.
C7_DegenerateRadarPoisons ==
    /\ last.sensor = "RADAR"
    /\ last.range_zero
    /\ last.error = "none"
    /\ VecHasNaN(x_, n_x)
    /\ MatHasNaN(P_, n_x, n_x)
    /\ IsNaN(nis_radar_[Len(nis_radar_)])

\* C8, as claimed: the normalisation of every finite residual terminates,
\* and its result differs from the residual by a multiple of 2*pi and lies
\* in (-pi, pi].
C8_NormalizationWraps ==
    /\ (ang.pc = "sub") ~> (ang.pc = "done")
    /\ [](ang.pc = "done" =>
            /\ ~ang.r.big
            /\ (ang.r.v - ang.r0.v) % (2 * M_PI) = 0
            /\ -M_PI < ang.r.v
            /\ ang.r.v <= M_PI)

\* C8: the first loop is at a residual that its iteration leaves as it is
C8_LoopMakesNoProgress ==
    /\ ang.pc = "sub"
    /\ AboveRange(ang.r)
    /\ SubTwoPi(ang.r) = ang.r

C10_PrintReadsInRange ==
    \A i \in DOMAIN rows :
        /\ rows[i].num < Len(nis_radar_)
        /\ rows[i].num < Len(nis_laser_)

\* C10: after RADAR measurements only, printNIS has read nis_laser_[0] of an
\* empty nis_laser_.
C10_PrintReadPastEnd ==
    /\ n_laser = 0
    /\ nis_laser_ = << >>
    /\ Len(rows) >= 1
    /\ rows[1].num = 0
    /\ rows[1].lidar = Unk

====
